---- MODULE Spec2Model ----
(***************************************************************************)
(* Model of notebooks/data/rust/example_rust.rs: the metrics registries    *)
(* (Prometheus, no-op, capability decorator), the metric handles they      *)
(* create (counter, gauge, histogram) and the histogram timer.             *)
(*                                                                         *)
(* Modelling conventions                                                   *)
(*  - u64 values are kept modulo 2^U64Bits: AtomicU64::fetch_add wraps.    *)
(*    The width is scaled down from 64 so that the wrap is reachable.      *)
(*  - f64 gauge values are small integers, which f64 adds and subtracts    *)
(*    exactly.                                                             *)
(*  - A Duration is a number of clock ticks; as_secs_f64 converts it to    *)
(*    seconds (whole part, fractional ticks).                              *)
(*  - Option<T> is a record with a field some.                             *)
(***************************************************************************)
EXTENDS Integers, Sequences, FiniteSets, TLC

\* ------------------------------------------------------------------ bounds
MaxInnerCalls == 1
MaxMutations == 1
MaxTimers == 2
MaxClock == 3
MaxCalls == 3
MaxNoopHandles == 3
MaxDirectCalls == 3
MaxConstructions == 2
MaxShutdowns == 2
MaxSameName == 2
MaxRepeated == 2
U64Bits == 3
TicksPerSec == 2

Modulus == 2 ^ U64Bits
U64Max == Modulus - 1

\* ------------------------------------------------------------ value domains
Plugins == {"p1"}
Unknown == "unknown"
Identities == Plugins \cup {Unknown}
NoContext == "no_context"
NoPluginId == "no_plugin_id"
Contexts == {NoContext, NoPluginId} \cup Plugins

Types == {"counter", "gauge", "histogram"}
InnerKinds == {"prometheus", "noop", "failing"}
Names == {"m1", "m2"}
Threads == {"t1", "t2"}

EmptyLabels == [k \in {} |-> ""]
CreateArgs ==
    { <<"m1", "d1", EmptyLabels>>,
      <<"m1", "d2", [k \in {"plugin_id"} |-> "mine"]>> }
Amounts == {0, 1, U64Max}
GaugeValues == {1, 2}

NoneOpt == [some |-> FALSE]
Some(x) == [some |-> TRUE, v |-> x]

\* MetricsConfig values; prometheus_endpoint is empty, an address, or malformed
Endpoints == {"", "127.0.0.1:9090", "not-an-address"}
Configs ==
    [enabled : BOOLEAN, prometheus_enabled : BOOLEAN, prometheus_endpoint : Endpoints,
     default_labels : {EmptyLabels}, include_plugin_id : {FALSE}]
NoConfig ==
    [enabled |-> FALSE, prometheus_enabled |-> FALSE, prometheus_endpoint |-> "",
     default_labels |-> EmptyLabels, include_plugin_id |-> FALSE]

VARIABLES
    ctx,            \* Context::current(): NoContext, NoPluginId or a plugin id
    granted,        \* identities holding the Metrics capability (the checker's state)
    innerKind,      \* which registry the CapabilityMetricsRegistry wraps
    config,         \* MetricsConfig of the Prometheus registry
    handles,        \* the metric handles created so far
    sink,           \* the export sink behind the metrics macros
    innerCalls,     \* per type, invocations of the inner registry's creation method
    lastCall,       \* the creation call that has just returned (NoCall after any other step)
    lastMut,        \* the handle mutation that has just returned (NoMut after any other step)
    nmut,           \* number of handle mutations made
    timers,         \* the HistogramTimers created so far
    now,            \* Instant::now()
    pc,             \* per thread: position inside a handle method
    op,             \* per thread: the call in progress
    tmp,            \* per thread: the value loaded under the lock
    cSum,           \* sum of the amounts of all counter increments invoked
    reads,          \* the last two value() reads of the shared counter
    gHist,          \* gauge calls in the order they took effect
    gDeltaSum,      \* sum of the deltas of all gauge increments/decrements invoked
    gSetSeen,       \* some gauge set was invoked
    gContended,     \* some thread waited for the gauge's write lock
    calls,          \* number of thread calls invoked
    registries,     \* the registries that construction calls have returned
    exporter,       \* process-wide: how often an endpoint was parsed, builder.install() run
    nnew,           \* number of registry construction calls made
    lastNew,        \* the registry construction call that has just returned
    shutdowns       \* number of shutdown calls made

vars == <<ctx, granted, innerKind, config, handles, sink,
          innerCalls, lastCall, lastMut, nmut, timers, now,
          pc, op, tmp, cSum, reads, gHist, gDeltaSum, gSetSeen, gContended, calls,
          registries, exporter, nnew, lastNew, shutdowns>>

capVars == <<ctx, granted>>
regVars == <<innerCalls, lastCall, lastMut>>
threadVars == <<pc, op, tmp, cSum, reads, gHist, gDeltaSum, gSetSeen, gContended, calls>>
ctorVars == <<registries, exporter, nnew, lastNew>>
lifeVars == <<ctorVars, shutdowns>>

\* ---------------------------------------------------------------- the sink
EmptySink ==
    [counter |-> [n \in Names |-> 0],
     gauge |-> [n \in Names |-> 0],
     histogram |-> [n \in Names |-> <<>>],
     described |-> [n \in Names |-> "none"],
     labelled |-> {}]

\* describe_counter!/describe_gauge!/describe_histogram!(name, description)
describe(s, name, description) == [s EXCEPT !.described[name] = description]

\* `let empty_labels: &[(&str, &str)] = &[]`: the label list of every sink call
empty_labels == EmptyLabels

\* counter!(name, labels).increment(value): the series keyed by (name, labels);
\* of the series with a non-empty label list only the key is kept
sink_counter_increment(s, name, labels, value) ==
    IF labels = EmptyLabels
    THEN [s EXCEPT !.counter[name] = (@ + value) % Modulus]
    ELSE [s EXCEPT !.labelled = @ \cup {<<name, labels>>}]

\* gauge!(name, labels).set(value)
sink_gauge_set(s, name, labels, value) ==
    IF labels = EmptyLabels
    THEN [s EXCEPT !.gauge[name] = value]
    ELSE [s EXCEPT !.labelled = @ \cup {<<name, labels>>}]

\* histogram!(name, labels).record(value)
sink_histogram_record(s, name, labels, value) ==
    IF labels = EmptyLabels
    THEN [s EXCEPT !.histogram[name] = Append(@, value)]
    ELSE [s EXCEPT !.labelled = @ \cup {<<name, labels>>}]

\* ------------------------------------------------- capability collaborators
\* Context::current().and_then(|ctx| ctx.plugin_id)
plugin_id_of(c) == IF c \in Plugins THEN Some(c) ELSE NoneOpt

\* ObservabilityCapabilityChecker::check_capability(plugin_id, Metrics) -> Result<bool>
\* (fails: this invocation of the checker returns Err)
checker_check_capability(id, fails) ==
    IF fails THEN "err" ELSE IF id \in granted THEN "true" ELSE "false"

\* the identity check_capability asks about: the plugin id, or "unknown"
caller_identity_without_fallback ==
    IF ctx \in Plugins THEN ctx ELSE ""

caller_identity ==
    LET p == plugin_id_of(ctx) IN IF p.some THEN p.v ELSE Unknown

\* CapabilityMetricsRegistry::check_capability
check_capability_remembers_allow(fails) ==
    IF handles # <<>> THEN "true" ELSE checker_check_capability(caller_identity, fails)

check_capability(fails) == checker_check_capability(caller_identity, fails)

\* `if !self.check_capability()? { return Err(CapabilityError) }` then delegate
capability_decision_delegates_on_false(ans) ==
    CASE ans = "err" -> "CheckerError"
      [] OTHER -> "delegate"

capability_decision_swallows_error(ans) ==
    CASE ans = "true" -> "delegate"
      [] OTHER -> "CapabilityError"

capability_decision(ans) ==
    CASE ans = "err" -> "CheckerError"
      [] ans = "false" -> "CapabilityError"
      [] OTHER -> "delegate"

\* self.inner.counter(name, description, labels)
delegate_args_drops_labels(name, description, labels) == <<name, description, EmptyLabels>>

delegate_args(name, description, labels) == <<name, description, labels>>

\* ------------------------------------------------------------- registries
\* PrometheusMetricsRegistry::add_default_labels
add_default_labels_defaults_win(labels) ==
    LET d == config.default_labels
        withDefaults ==
            [k \in (DOMAIN labels) \cup (DOMAIN d) |->
                IF k \in DOMAIN d THEN d[k] ELSE labels[k]]
        p == plugin_id_of(ctx)
    IN IF config.include_plugin_id /\ p.some /\ "plugin_id" \notin DOMAIN withDefaults
       THEN [k \in (DOMAIN withDefaults) \cup {"plugin_id"} |->
                IF k = "plugin_id" THEN p.v ELSE withDefaults[k]]
       ELSE withDefaults

add_default_labels(labels) ==
    LET d == config.default_labels
        withDefaults ==
            [k \in (DOMAIN labels) \cup (DOMAIN d) |->
                IF k \in DOMAIN labels THEN labels[k] ELSE d[k]]
        p == plugin_id_of(ctx)
    IN IF config.include_plugin_id /\ p.some /\ "plugin_id" \notin DOMAIN withDefaults
       THEN [k \in (DOMAIN withDefaults) \cup {"plugin_id"} |->
                IF k = "plugin_id" THEN p.v ELSE withDefaults[k]]
       ELSE withDefaults

NewHandle(type, backend, name, description, labels) ==
    [type |-> type, backend |-> backend, name |-> name, description |-> description,
     labels |-> labels, value |-> 0, lock |-> "free"]

\* PrometheusMetricsRegistry::counter/gauge/histogram with Prometheus{Counter,Gauge,Histogram}::new
PrometheusMetricsRegistry_create(type, name, description, labels) ==
    [status |-> "ok",
     handle |-> NewHandle(type, "prometheus", name, description, add_default_labels(labels)),
     sink |-> describe(sink, name, description)]

\* NoopMetricsRegistry::counter/gauge/histogram
NoopMetricsRegistry_create(type, name, description, labels) ==
    [status |-> "ok",
     handle |-> NewHandle(type, "noop", name, description, labels),
     sink |-> sink]

\* some other implementor of MetricsRegistry whose creation methods return Err
FailingMetricsRegistry_create(type, name, description, labels) ==
    [status |-> "MetricsError",
     handle |-> NewHandle(type, "failing", name, description, labels),
     sink |-> sink]

\* dynamic dispatch on inner: Box<dyn MetricsRegistry>
inner_create(type, name, description, labels) ==
    CASE innerKind = "prometheus" -> PrometheusMetricsRegistry_create(type, name, description, labels)
      [] innerKind = "noop" -> NoopMetricsRegistry_create(type, name, description, labels)
      [] OTHER -> FailingMetricsRegistry_create(type, name, description, labels)

NoArgs == [type |-> "none", name |-> "", description |-> "", labels |-> EmptyLabels]
NoCall ==
    [type |-> "none", name |-> "", description |-> "", labels |-> EmptyLabels,
     identity |-> "", capability |-> "", checks |-> 0, answer |-> "none",
     forwarded |-> NoArgs,
     status |-> "none", handle |-> 0]
NoMut == [handle |-> 0, op |-> "none", status |-> "none", caller |-> "", authorized |-> FALSE]

\* the step is neither a creation call nor a handle mutation
NothingReturned == lastCall' = NoCall /\ lastMut' = NoMut

InnerTotal == innerCalls["counter"] + innerCalls["gauge"] + innerCalls["histogram"]

\* CapabilityMetricsRegistry::counter / gauge / histogram
\* (lastCall records the call: its arguments, the identity asked about, the
\*  checker's answer, what the inner registry received, the result)
\* (limit: the bound on the calls that reach the inner registry)
CapabilityCreateUpTo(limit, type, name, description, labels, fails) ==
    /\ LET id == caller_identity
           ans == check_capability(fails)
           dec == capability_decision(ans)
           fwd == delegate_args(name, description, labels)
           r == inner_create(type, fwd[1], fwd[2], fwd[3])
           call == [type |-> type, name |-> name, description |-> description,
                    labels |-> labels, identity |-> id, capability |-> "Metrics",
                    checks |-> 1, answer |-> ans,
                    forwarded |-> NoArgs, status |-> "none", handle |-> 0]
       IN /\ dec = "delegate" => InnerTotal < limit
          /\ IF dec = "delegate"
             THEN /\ innerCalls' = [innerCalls EXCEPT ![type] = @ + 1]
                  /\ sink' = r.sink
                  /\ LET sent == [call EXCEPT !.forwarded =
                                     [type |-> type, name |-> fwd[1],
                                      description |-> fwd[2], labels |-> fwd[3]]]
                     IN IF r.status = "ok"
                        THEN /\ handles' = Append(handles, r.handle)
                             /\ lastCall' = [sent EXCEPT !.status = "ok",
                                                         !.handle = Len(handles) + 1]
                        ELSE /\ UNCHANGED handles
                             /\ lastCall' = [sent EXCEPT !.status = r.status]
             ELSE /\ lastCall' = [call EXCEPT !.status = dec]
                  /\ UNCHANGED <<innerCalls, sink, handles>>
    /\ lastMut' = NoMut
    /\ UNCHANGED <<capVars, innerKind, config, nmut, timers, now, threadVars, lifeVars>>

CapabilityCreate(type, name, description, labels, fails) ==
    CapabilityCreateUpTo(MaxInnerCalls, type, name, description, labels, fails)

CapabilityCounter ==
    \E a \in CreateArgs, fails \in BOOLEAN :
        CapabilityCreate("counter", a[1], a[2], a[3], fails)
CapabilityGauge ==
    \E a \in CreateArgs, fails \in BOOLEAN :
        CapabilityCreate("gauge", a[1], a[2], a[3], fails)
CapabilityHistogram ==
    \E a \in CreateArgs, fails \in BOOLEAN :
        CapabilityCreate("histogram", a[1], a[2], a[3], fails)

\* the environment: the execution context and the capabilities granted
SetContext == \E c \in Contexts : /\ c # ctx
                                  /\ ctx' = c
                                  /\ UNCHANGED granted
Grant == \E id \in Identities : /\ id \notin granted
                                /\ granted' = granted \cup {id}
                                /\ UNCHANGED ctx
Revoke == \E id \in granted : /\ granted' = granted \ {id}
                              /\ UNCHANGED ctx
Environment ==
    /\ SetContext \/ Grant \/ Revoke
    /\ NothingReturned
    /\ UNCHANGED <<innerKind, config, handles, sink, innerCalls, nmut, timers, now,
                   threadVars, lifeVars>>

\* ---------------------------------------------------------- metric handles
\* AtomicU64::fetch_add(value, Relaxed): wrapping addition
fetch_add(cur, value) == (cur + value) % Modulus

\* *guard += value / *guard -= value on the f64 behind the RwLock
gauge_add(cur, value) == cur + value
gauge_sub_adds(cur, value) == cur + value

gauge_sub(cur, value) == cur - value

\* Counter::increment of PrometheusCounter and NoopCounter
Counter_increment_checks_capability(h, s, value) ==
    IF caller_identity \notin granted
    THEN [handle |-> h, sink |-> s, status |-> "CapabilityError"]
    ELSE IF h.backend = "prometheus"
    THEN [handle |-> [h EXCEPT !.value = fetch_add(h.value, value)],
          sink |-> sink_counter_increment(s, h.name, empty_labels, value),
          status |-> "ok"]
    ELSE [handle |-> h, sink |-> s, status |-> "ok"]

Counter_increment_forwards_labels(h, s, value) ==
    IF h.backend = "prometheus"
    THEN [handle |-> [h EXCEPT !.value = fetch_add(h.value, value)],
          sink |-> sink_counter_increment(s, h.name, h.labels, value),
          status |-> "ok"]
    ELSE [handle |-> h, sink |-> s, status |-> "ok"]

Counter_increment(h, s, value) ==
    IF h.backend = "prometheus"
    THEN [handle |-> [h EXCEPT !.value = fetch_add(h.value, value)],
          sink |-> sink_counter_increment(s, h.name, empty_labels, value),
          status |-> "ok"]
    ELSE [handle |-> h, sink |-> s, status |-> "ok"]

\* Counter::value of PrometheusCounter and NoopCounter
Counter_value(h) == IF h.backend = "prometheus" THEN h.value ELSE 0

\* Gauge::set of PrometheusGauge and NoopGauge
Gauge_set(h, s, value) ==
    IF h.backend = "prometheus"
    THEN [handle |-> [h EXCEPT !.value = value],
          sink |-> sink_gauge_set(s, h.name, empty_labels, value),
          status |-> "ok"]
    ELSE [handle |-> h, sink |-> s, status |-> "ok"]

\* Gauge::increment of PrometheusGauge and NoopGauge
Gauge_increment(h, s, value) ==
    IF h.backend = "prometheus"
    THEN LET new_value == gauge_add(h.value, value)
         IN [handle |-> [h EXCEPT !.value = new_value],
             sink |-> sink_gauge_set(s, h.name, empty_labels, new_value),
             status |-> "ok"]
    ELSE [handle |-> h, sink |-> s, status |-> "ok"]

\* Gauge::decrement of PrometheusGauge and NoopGauge
Gauge_decrement_noop_rejects(h, s, value) ==
    IF h.backend = "prometheus"
    THEN LET new_value == gauge_sub(h.value, value)
         IN [handle |-> [h EXCEPT !.value = new_value],
             sink |-> sink_gauge_set(s, h.name, empty_labels, new_value),
             status |-> "ok"]
    ELSE [handle |-> h, sink |-> s, status |-> "MetricsError"]

Gauge_decrement(h, s, value) ==
    IF h.backend = "prometheus"
    THEN LET new_value == gauge_sub(h.value, value)
         IN [handle |-> [h EXCEPT !.value = new_value],
             sink |-> sink_gauge_set(s, h.name, empty_labels, new_value),
             status |-> "ok"]
    ELSE [handle |-> h, sink |-> s, status |-> "ok"]

\* Gauge::value of PrometheusGauge and NoopGauge
Gauge_value(h) == IF h.backend = "prometheus" THEN h.value ELSE 0

\* Histogram::record of PrometheusHistogram, NoopHistogram and of an
\* implementor whose record returns Err
Histogram_record(h, s, value) ==
    CASE h.backend = "prometheus" ->
            [sink |-> sink_histogram_record(s, h.name, empty_labels, value), status |-> "ok"]
      [] h.backend = "noop" -> [sink |-> s, status |-> "ok"]
      [] OTHER -> [sink |-> s, status |-> "MetricsError"]

\* Duration::as_secs_f64: ticks to seconds
as_secs_f64(d) == [secs |-> d \div TicksPerSec, frac |-> d % TicksPerSec]

\* Instant::elapsed
elapsed_since(start) == now - start

\* ------------------------------------------------------------ HistogramTimer
\* HistogramTimer::new (reached through Histogram::start_timer, which clones self)
HistogramTimer_new(histogram) ==
    [start |-> now, histogram |-> Some(histogram), target |-> histogram.backend,
     stopped |-> FALSE, dropped |-> FALSE, endedAt |-> 0,
     records |-> <<>>, result |-> [status |-> "none", elapsed |-> NoneOpt]]

\* Option::take on self.histogram
take_keeps_histogram(t) == t

take(t) == [t EXCEPT !.histogram = NoneOpt]

\* the body of HistogramTimer::stop, before self goes out of scope
HistogramTimer_stop_returns_zero(t, s) ==
    LET elapsed == elapsed_since(t.start)
    IN IF t.histogram.some
       THEN LET r == Histogram_record(t.histogram.v, s, as_secs_f64(elapsed))
                t2 == [take(t) EXCEPT !.records = Append(@, as_secs_f64(elapsed))]
            IN IF r.status = "ok"
               THEN [timer |-> [t2 EXCEPT !.result = [status |-> "ok", elapsed |-> Some(0)]],
                     sink |-> r.sink]
               ELSE [timer |-> [t2 EXCEPT !.result = [status |-> r.status, elapsed |-> NoneOpt]],
                     sink |-> r.sink]
       ELSE [timer |-> [t EXCEPT !.result = [status |-> "ok", elapsed |-> Some(0)]],
             sink |-> s]

HistogramTimer_stop_swallows_error(t, s) ==
    LET elapsed == elapsed_since(t.start)
    IN IF t.histogram.some
       THEN LET r == Histogram_record(t.histogram.v, s, as_secs_f64(elapsed))
                t2 == [take(t) EXCEPT !.records = Append(@, as_secs_f64(elapsed))]
            IN [timer |-> [t2 EXCEPT !.result = [status |-> "ok", elapsed |-> Some(elapsed)]],
                sink |-> r.sink]
       ELSE [timer |-> [t EXCEPT !.result = [status |-> "ok", elapsed |-> Some(elapsed)]],
             sink |-> s]

HistogramTimer_stop(t, s) ==
    LET elapsed == elapsed_since(t.start)
    IN IF t.histogram.some
       THEN LET r == Histogram_record(t.histogram.v, s, as_secs_f64(elapsed))
                t2 == [take(t) EXCEPT !.records = Append(@, as_secs_f64(elapsed))]
            IN IF r.status = "ok"
               THEN [timer |-> [t2 EXCEPT !.result = [status |-> "ok", elapsed |-> Some(elapsed)]],
                     sink |-> r.sink]
               ELSE [timer |-> [t2 EXCEPT !.result = [status |-> r.status, elapsed |-> NoneOpt]],
                     sink |-> r.sink]
       ELSE [timer |-> [t EXCEPT !.result = [status |-> "ok", elapsed |-> Some(elapsed)]],
             sink |-> s]

\* Drop::drop for HistogramTimer
HistogramTimer_drop_skips_record(t, s) ==
    [timer |-> [take(t) EXCEPT !.dropped = TRUE, !.endedAt = now], sink |-> s]

HistogramTimer_drop(t, s) ==
    IF t.histogram.some
    THEN LET elapsed == elapsed_since(t.start)
             r == Histogram_record(t.histogram.v, s, as_secs_f64(elapsed))
         IN [timer |-> [take(t) EXCEPT !.records = Append(@, as_secs_f64(elapsed)),
                                       !.dropped = TRUE, !.endedAt = now],
             sink |-> r.sink]
    ELSE [timer |-> [t EXCEPT !.dropped = TRUE, !.endedAt = now], sink |-> s]

Live(t) == ~t.stopped /\ ~t.dropped

\* timer.stop(): the body, then the drop of the consumed self
TimerStop ==
    \E k \in 1..Len(timers) :
        /\ Live(timers[k])
        /\ LET body == HistogramTimer_stop(timers[k], sink)
               fin == HistogramTimer_drop([body.timer EXCEPT !.stopped = TRUE], body.sink)
           IN /\ timers' = [timers EXCEPT ![k] = fin.timer]
              /\ sink' = fin.sink
        /\ NothingReturned
        /\ UNCHANGED <<capVars, innerKind, config, handles, innerCalls, nmut, now,
                       threadVars, lifeVars>>

\* the timer goes out of scope without stop()
TimerDrop ==
    \E k \in 1..Len(timers) :
        /\ Live(timers[k])
        /\ LET fin == HistogramTimer_drop(timers[k], sink)
           IN /\ timers' = [timers EXCEPT ![k] = fin.timer]
              /\ sink' = fin.sink
        /\ NothingReturned
        /\ UNCHANGED <<capVars, innerKind, config, handles, innerCalls, nmut, now,
                       threadVars, lifeVars>>

\* the monotonic clock advances
Tick ==
    /\ now < MaxClock
    /\ now' = now + 1
    /\ NothingReturned
    /\ UNCHANGED <<capVars, innerKind, config, handles, sink, innerCalls, nmut,
                   timers, threadVars, lifeVars>>

\* ------------------------------------- calls on a handle, one caller at a time
RecordValues == {as_secs_f64(3)}

Mutated(i, name, r) ==
    /\ handles' = [handles EXCEPT ![i] = r.handle]
    /\ sink' = r.sink
    /\ lastMut' = [handle |-> i, op |-> name, status |-> r.status,
                    caller |-> caller_identity, authorized |-> caller_identity \in granted]
    /\ nmut' = nmut + 1
    /\ lastCall' = NoCall
    /\ UNCHANGED <<capVars, innerKind, config, innerCalls, timers, now, threadVars, lifeVars>>

CounterIncrement ==
    \E i \in 1..Len(handles), value \in Amounts :
        /\ handles[i].type = "counter"
        /\ nmut < MaxMutations
        /\ Mutated(i, "increment", Counter_increment(handles[i], sink, value))

GaugeSet ==
    \E i \in 1..Len(handles), value \in GaugeValues :
        /\ handles[i].type = "gauge"
        /\ nmut < MaxMutations
        /\ Mutated(i, "set", Gauge_set(handles[i], sink, value))

GaugeIncrement ==
    \E i \in 1..Len(handles), value \in GaugeValues :
        /\ handles[i].type = "gauge"
        /\ nmut < MaxMutations
        /\ Mutated(i, "increment", Gauge_increment(handles[i], sink, value))

GaugeDecrement ==
    \E i \in 1..Len(handles), value \in GaugeValues :
        /\ handles[i].type = "gauge"
        /\ nmut < MaxMutations
        /\ Mutated(i, "decrement", Gauge_decrement(handles[i], sink, value))

HistogramRecord ==
    \E i \in 1..Len(handles), value \in RecordValues :
        /\ handles[i].type = "histogram"
        /\ nmut < MaxMutations
        /\ LET r == Histogram_record(handles[i], sink, value)
           IN Mutated(i, "record", [handle |-> handles[i], sink |-> r.sink,
                                    status |-> r.status])

HistogramStartTimer ==
    \E i \in 1..Len(handles) :
        /\ handles[i].type = "histogram"
        /\ nmut < MaxMutations
        /\ timers' = Append(timers, HistogramTimer_new(handles[i]))
        /\ lastMut' = [handle |-> i, op |-> "start_timer", status |-> "ok",
                        caller |-> caller_identity,
                        authorized |-> caller_identity \in granted]
        /\ nmut' = nmut + 1
        /\ lastCall' = NoCall
        /\ UNCHANGED <<capVars, innerKind, config, handles, sink, innerCalls, now,
                       threadVars, lifeVars>>

\* ------------------------------------------------ the capability registry
ThreadsIdle ==
    /\ pc = [t \in Threads |-> "idle"]
    /\ op = [t \in Threads |-> [name |-> "none", value |-> 0]]
    /\ tmp = [t \in Threads |-> 0]
    /\ cSum = 0
    /\ reads = <<0, 0>>
    /\ gHist = <<>>
    /\ gDeltaSum = 0
    /\ gSetSeen = FALSE
    /\ gContended = FALSE
    /\ calls = 0

\* no registry construction call has been made in the process
NoNew == [via |-> "none", config |-> NoConfig,
          status |-> "none", msg |-> "", registry |-> 0]
NothingConstructed ==
    /\ registries = <<>>
    /\ exporter = [parses |-> 0, installs |-> 0]
    /\ nnew = 0
    /\ lastNew = NoNew
    /\ shutdowns = 0

NoRegistryCalls ==
    /\ innerCalls = [t \in Types |-> 0]
    /\ lastCall = NoCall
    /\ lastMut = NoMut
    /\ nmut = 0

\* a CapabilityMetricsRegistry just constructed around an inner registry
Init ==
    /\ ctx = NoContext
    /\ granted = {}
    /\ innerKind \in InnerKinds
    /\ config = [default_labels |-> [k \in {"env"} |-> "dflt"], include_plugin_id |-> TRUE]
    /\ handles = <<>>
    /\ sink = EmptySink
    /\ NoRegistryCalls
    /\ timers = <<>>
    /\ now = 0
    /\ ThreadsIdle
    /\ NothingConstructed

Next ==
    \/ CapabilityCounter
    \/ CapabilityGauge
    \/ CapabilityHistogram
    \/ Environment
    \/ CounterIncrement
    \/ GaugeSet
    \/ GaugeIncrement
    \/ GaugeDecrement
    \/ HistogramRecord
    \/ HistogramStartTimer
    \/ TimerStop
    \/ TimerDrop

Spec == Init /\ [][Next]_vars

\* ------------------------------------------------------- the timer alone
\* histogram.start_timer() on any of the histograms
TimerStart ==
    \E i \in 1..Len(handles) :
        /\ handles[i].type = "histogram"
        /\ Len(timers) < MaxTimers
        /\ timers' = Append(timers, HistogramTimer_new(handles[i]))
        /\ NothingReturned
        /\ UNCHANGED <<capVars, innerKind, config, handles, sink, innerCalls, nmut,
                       now, threadVars, lifeVars>>

\* one histogram of each implementor, no timer yet
InitTimer ==
    /\ ctx = NoContext
    /\ granted = {}
    /\ innerKind = "noop"
    /\ config = [default_labels |-> EmptyLabels, include_plugin_id |-> FALSE]
    /\ handles = << NewHandle("histogram", "prometheus", "m1", "d1", EmptyLabels),
                    NewHandle("histogram", "noop", "m1", "d1", EmptyLabels),
                    NewHandle("histogram", "failing", "m2", "d1", EmptyLabels) >>
    /\ sink = EmptySink
    /\ NoRegistryCalls
    /\ timers = <<>>
    /\ now = 0
    /\ ThreadsIdle
    /\ NothingConstructed

NextTimer ==
    \/ TimerStart
    \/ Tick
    \/ TimerStop
    \/ TimerDrop

SpecTimer == InitTimer /\ [][NextTimer]_vars

\* ------------------------------------ threads sharing one counter handle
AllIdle == \A t \in Threads : pc[t] = "idle"

threadFrame == <<capVars, innerKind, config, regVars, nmut, timers, now, lifeVars>>

\* a thread calls counter.increment(value); the no-op counter returns at once
CounterCall ==
    \E t \in Threads, value \in Amounts :
        /\ pc[t] = "idle"
        /\ calls < MaxCalls
        /\ calls' = calls + 1
        /\ cSum' = cSum + value
        /\ IF handles[1].backend = "prometheus"
           THEN /\ pc' = [pc EXCEPT ![t] = "fetch_add"]
                /\ op' = [op EXCEPT ![t] = [name |-> "increment", value |-> value]]
           ELSE UNCHANGED <<pc, op>>
        /\ UNCHANGED <<handles, sink, tmp, reads, gHist, gDeltaSum, gSetSeen, gContended, threadFrame>>

\* self.value.fetch_add(value, Ordering::Relaxed)
CounterFetchAdd ==
    \E t \in Threads :
        /\ pc[t] = "fetch_add"
        /\ handles' = [handles EXCEPT ![1].value = fetch_add(@, op[t].value)]
        /\ pc' = [pc EXCEPT ![t] = "forward"]
        /\ UNCHANGED <<sink, op, tmp, cSum, reads, gHist, gDeltaSum, gSetSeen, gContended, calls,
                       threadFrame>>

\* counter!(name, empty_labels).increment(value); Ok(())
CounterForward ==
    \E t \in Threads :
        /\ pc[t] = "forward"
        /\ sink' = sink_counter_increment(sink, handles[1].name, empty_labels, op[t].value)
        /\ pc' = [pc EXCEPT ![t] = "idle"]
        /\ op' = [op EXCEPT ![t] = [name |-> "none", value |-> 0]]
        /\ UNCHANGED <<handles, tmp, cSum, reads, gHist, gDeltaSum, gSetSeen, gContended, calls,
                       threadFrame>>

\* an observer calls counter.value()
CounterRead ==
    /\ reads' = <<reads[2], Counter_value(handles[1])>>
    /\ UNCHANGED <<handles, sink, pc, op, tmp, cSum, gHist, gDeltaSum, gSetSeen, gContended, calls,
                   threadFrame>>

InitShared(type) ==
    /\ ctx = NoContext
    /\ granted = {}
    /\ innerKind \in {"prometheus", "noop"}
    /\ config = [default_labels |-> EmptyLabels, include_plugin_id |-> FALSE]
    /\ handles = << NewHandle(type, innerKind, "m1", "d1", EmptyLabels) >>
    /\ sink = IF innerKind = "prometheus" THEN describe(EmptySink, "m1", "d1") ELSE EmptySink
    /\ NoRegistryCalls
    /\ timers = <<>>
    /\ now = 0
    /\ ThreadsIdle
    /\ NothingConstructed

\* one counter handle (Arc<dyn Counter>) shared by the threads
InitCounter == InitShared("counter")

NextCounter ==
    \/ CounterCall
    \/ CounterFetchAdd
    \/ CounterForward
    \/ CounterRead

SpecCounter == InitCounter /\ [][NextCounter]_vars

\* -------------------------------------- threads sharing one gauge handle
GaugeOps == {"set", "increment", "decrement"}

\* RwLock::write() can be acquired
write_lock_unguarded(h) == TRUE

write_lock_available(h) == h.lock = "free"

\* a thread calls gauge.set / increment / decrement; the no-op gauge returns at once
GaugeCall ==
    \E t \in Threads, name \in GaugeOps, value \in GaugeValues :
        /\ pc[t] = "idle"
        /\ calls < MaxCalls
        /\ calls' = calls + 1
        /\ gSetSeen' = (gSetSeen \/ name = "set")
        /\ gDeltaSum' = CASE name = "increment" -> gDeltaSum + value
                          [] name = "decrement" -> gDeltaSum - value
                          [] OTHER -> gDeltaSum
        /\ IF handles[1].backend = "prometheus"
           THEN /\ pc' = [pc EXCEPT ![t] = IF name = "set" THEN "write" ELSE "lock"]
                /\ op' = [op EXCEPT ![t] = [name |-> name, value |-> value]]
           ELSE UNCHANGED <<pc, op>>
        /\ gContended' = (gContended \/ (handles[1].lock # "free" /\ pc'[t] # "idle"))
        /\ UNCHANGED <<handles, sink, tmp, cSum, reads, gHist, threadFrame>>

\* set: *self.value.write() = value (the guard is a temporary of the statement)
GaugeSetWrite ==
    \E t \in Threads :
        /\ pc[t] = "write"
        /\ write_lock_available(handles[1])
        /\ handles' = [handles EXCEPT ![1].value = op[t].value]
        /\ gHist' = Append(gHist, op[t])
        /\ pc' = [pc EXCEPT ![t] = "forward"]
        /\ UNCHANGED <<sink, op, tmp, cSum, reads, gDeltaSum, gSetSeen, gContended, calls, threadFrame>>

\* set: gauge!(name, empty_labels).set(value); Ok(())
GaugeSetForward ==
    \E t \in Threads :
        /\ pc[t] = "forward"
        /\ sink' = sink_gauge_set(sink, handles[1].name, empty_labels, op[t].value)
        /\ pc' = [pc EXCEPT ![t] = "idle"]
        /\ op' = [op EXCEPT ![t] = [name |-> "none", value |-> 0]]
        /\ UNCHANGED <<handles, tmp, cSum, reads, gHist, gDeltaSum, gSetSeen, gContended, calls,
                       threadFrame>>

\* increment/decrement: let mut guard = self.value.write()
GaugeLock ==
    \E t \in Threads :
        /\ pc[t] = "lock"
        /\ write_lock_available(handles[1])
        /\ handles' = [handles EXCEPT ![1].lock = t]
        /\ pc' = [pc EXCEPT ![t] = "load"]
        /\ gContended' = (gContended \/ \E u \in Threads : pc'[u] \in {"lock", "write"})
        /\ UNCHANGED <<sink, op, tmp, cSum, reads, gHist, gDeltaSum, gSetSeen, calls,
                       threadFrame>>

\* increment/decrement: the read of *guard in `*guard += value`
GaugeLoad ==
    \E t \in Threads :
        /\ pc[t] = "load"
        /\ tmp' = [tmp EXCEPT ![t] = handles[1].value]
        /\ pc' = [pc EXCEPT ![t] = "store"]
        /\ UNCHANGED <<handles, sink, op, cSum, reads, gHist, gDeltaSum, gSetSeen, gContended, calls,
                       threadFrame>>

\* increment/decrement: the write of *guard; let new_value = *guard
GaugeStore ==
    \E t \in Threads :
        /\ pc[t] = "store"
        /\ LET new_value == IF op[t].name = "increment"
                            THEN gauge_add(tmp[t], op[t].value)
                            ELSE gauge_sub(tmp[t], op[t].value)
           IN /\ handles' = [handles EXCEPT ![1].value = new_value]
              /\ tmp' = [tmp EXCEPT ![t] = new_value]
        /\ gHist' = Append(gHist, op[t])
        /\ pc' = [pc EXCEPT ![t] = "forward_locked"]
        /\ UNCHANGED <<sink, op, cSum, reads, gDeltaSum, gSetSeen, gContended, calls, threadFrame>>

\* increment/decrement: gauge!(name, empty_labels).set(new_value); Ok(()) drops the guard
GaugeForwardUnlock ==
    \E t \in Threads :
        /\ pc[t] = "forward_locked"
        /\ sink' = sink_gauge_set(sink, handles[1].name, empty_labels, tmp[t])
        /\ handles' = [handles EXCEPT ![1].lock = "free"]
        /\ pc' = [pc EXCEPT ![t] = "idle"]
        /\ op' = [op EXCEPT ![t] = [name |-> "none", value |-> 0]]
        /\ tmp' = [tmp EXCEPT ![t] = 0]
        /\ UNCHANGED <<cSum, reads, gHist, gDeltaSum, gSetSeen, gContended, calls, threadFrame>>

\* one gauge handle (Arc<dyn Gauge>) shared by the threads
InitGauge == InitShared("gauge")

NextGauge ==
    \/ GaugeCall
    \/ GaugeSetWrite
    \/ GaugeSetForward
    \/ GaugeLock
    \/ GaugeLoad
    \/ GaugeStore
    \/ GaugeForwardUnlock

SpecGauge == InitGauge /\ [][NextGauge]_vars

\* --------------------------- the Prometheus registry called directly: labels
LabelMaps(keys, v) == UNION { [S -> {v}] : S \in SUBSET keys }
CallerLabels == LabelMaps({"env", "plugin_id"}, "mine")
DefaultLabels == LabelMaps({"zone", "plugin_id"}, "dflt")

\* registry.counter / gauge / histogram(name, description, labels) on a
\* PrometheusMetricsRegistry
PrometheusCreate(type, name, description, labels) ==
    /\ LET r == PrometheusMetricsRegistry_create(type, name, description, labels)
       IN /\ handles' = Append(handles, r.handle)
          /\ sink' = r.sink
          /\ lastCall' = [NoCall EXCEPT !.type = type, !.name = name,
                                        !.description = description, !.labels = labels,
                                        !.status = r.status, !.handle = Len(handles) + 1]
    /\ innerCalls' = [innerCalls EXCEPT ![type] = @ + 1]
    /\ lastMut' = NoMut
    /\ UNCHANGED <<capVars, innerKind, config, nmut, timers, now, threadVars, lifeVars>>

PrometheusCounter ==
    \E l \in CallerLabels :
        InnerTotal < MaxInnerCalls /\ PrometheusCreate("counter", "m1", "d1", l)
PrometheusGauge ==
    \E l \in CallerLabels :
        InnerTotal < MaxInnerCalls /\ PrometheusCreate("gauge", "m1", "d1", l)
PrometheusHistogram ==
    \E l \in CallerLabels :
        InnerTotal < MaxInnerCalls /\ PrometheusCreate("histogram", "m1", "d1", l)

\* the calling thread's execution context changes between calls
ContextSwitch ==
    /\ SetContext
    /\ NothingReturned
    /\ UNCHANGED <<innerKind, config, handles, sink, innerCalls, nmut, timers, now,
                   threadVars, lifeVars>>

\* a PrometheusMetricsRegistry holding a clone of some MetricsConfig
InitLabels ==
    /\ ctx \in Contexts
    /\ granted = {}
    /\ innerKind = "prometheus"
    /\ config \in [default_labels : DefaultLabels, include_plugin_id : BOOLEAN]
    /\ handles = <<>>
    /\ sink = EmptySink
    /\ NoRegistryCalls
    /\ timers = <<>>
    /\ now = 0
    /\ ThreadsIdle
    /\ NothingConstructed

NextLabels ==
    \/ PrometheusCounter
    \/ PrometheusGauge
    \/ PrometheusHistogram
    \/ ContextSwitch

SpecLabels == InitLabels /\ [][NextLabels]_vars

\* --------------------------------------- the no-op registry called directly
\* registry.counter / gauge / histogram(name, description, labels) on a
\* NoopMetricsRegistry
NoopCreate(type, name, description, labels) ==
    /\ InnerTotal < MaxNoopHandles
    /\ LET r == NoopMetricsRegistry_create(type, name, description, labels)
       IN /\ handles' = Append(handles, r.handle)
          /\ sink' = r.sink
          /\ lastCall' = [NoCall EXCEPT !.type = type, !.name = name,
                                        !.description = description, !.labels = labels,
                                        !.status = r.status, !.handle = Len(handles) + 1]
    /\ innerCalls' = [innerCalls EXCEPT ![type] = @ + 1]
    /\ lastMut' = NoMut
    /\ UNCHANGED <<capVars, innerKind, config, nmut, timers, now, threadVars, lifeVars>>

NoopCounterCreate == NoopCreate("counter", "m1", "d1", EmptyLabels)
NoopGaugeCreate == NoopCreate("gauge", "m1", "d1", EmptyLabels)
NoopHistogramCreate == NoopCreate("histogram", "m1", "d1", EmptyLabels)

\* calls on the handles, up to MaxDirectCalls of them
DirectCounterIncrement ==
    \E i \in 1..Len(handles), value \in Amounts :
        /\ handles[i].type = "counter"
        /\ nmut < MaxDirectCalls
        /\ Mutated(i, "increment", Counter_increment(handles[i], sink, value))

DirectGaugeSet ==
    \E i \in 1..Len(handles), value \in GaugeValues :
        /\ handles[i].type = "gauge"
        /\ nmut < MaxDirectCalls
        /\ Mutated(i, "set", Gauge_set(handles[i], sink, value))

DirectGaugeIncrement ==
    \E i \in 1..Len(handles), value \in GaugeValues :
        /\ handles[i].type = "gauge"
        /\ nmut < MaxDirectCalls
        /\ Mutated(i, "increment", Gauge_increment(handles[i], sink, value))

DirectGaugeDecrement ==
    \E i \in 1..Len(handles), value \in GaugeValues :
        /\ handles[i].type = "gauge"
        /\ nmut < MaxDirectCalls
        /\ Mutated(i, "decrement", Gauge_decrement(handles[i], sink, value))

DirectHistogramRecord ==
    \E i \in 1..Len(handles), value \in RecordValues :
        /\ handles[i].type = "histogram"
        /\ nmut < MaxDirectCalls
        /\ LET r == Histogram_record(handles[i], sink, value)
           IN Mutated(i, "record", [handle |-> handles[i], sink |-> r.sink,
                                    status |-> r.status])

\* NoopMetricsRegistry::new
InitNoop ==
    /\ ctx = NoContext
    /\ granted = {}
    /\ innerKind = "noop"
    /\ config = [default_labels |-> EmptyLabels, include_plugin_id |-> FALSE]
    /\ handles = <<>>
    /\ sink = EmptySink
    /\ NoRegistryCalls
    /\ timers = <<>>
    /\ now = 0
    /\ ThreadsIdle
    /\ NothingConstructed

NextNoop ==
    \/ NoopCounterCreate
    \/ NoopGaugeCreate
    \/ NoopHistogramCreate
    \/ DirectCounterIncrement
    \/ DirectGaugeSet
    \/ DirectGaugeIncrement
    \/ DirectGaugeDecrement
    \/ DirectHistogramRecord
    \/ TimerStart
    \/ TimerStop
    \/ TimerDrop

SpecNoop == InitNoop /\ [][NextNoop]_vars

\* ------------------------------------------------- constructing registries
\* str::parse::<std::net::SocketAddr>: Ok(address) or Err
parse_socket_addr_accepts_all(e) ==
    [some |-> TRUE, v |-> [ip |-> "0.0.0.0", port |-> "0"]]

parse_socket_addr(e) ==
    IF e = "127.0.0.1:9090"
    THEN [some |-> TRUE, v |-> [ip |-> "127.0.0.1", port |-> "9090"]]
    ELSE [some |-> FALSE, v |-> [ip |-> "", port |-> ""]]

\* PrometheusMetricsRegistry::initialize on a registry; install_ok: this run
\* of builder.install() returns Ok. parses/installs: how often the call parsed
\* an endpoint and ran builder.install()
PrometheusMetricsRegistry_initialize(reg, install_ok) ==
    IF reg.initialized
    THEN [status |-> "ok", msg |-> "", registry |-> reg, parses |-> 0, installs |-> 0]
    ELSE IF reg.config.prometheus_enabled
    THEN LET with_listener == reg.config.prometheus_endpoint # ""
             endpoint == parse_socket_addr(reg.config.prometheus_endpoint)
             parses == IF with_listener THEN 1 ELSE 0
         IN IF with_listener /\ ~endpoint.some
            THEN [status |-> "MetricsError", msg |-> "Invalid Prometheus endpoint",
                  registry |-> reg, parses |-> parses, installs |-> 0]
            ELSE IF ~install_ok
            THEN [status |-> "MetricsError", msg |-> "Failed to install Prometheus",
                  registry |-> reg, parses |-> parses, installs |-> 1]
            ELSE [status |-> "ok", msg |-> "",
                  registry |-> [reg EXCEPT !.initialized = TRUE],
                  parses |-> parses, installs |-> 1]
    ELSE [status |-> "ok", msg |-> "", registry |-> [reg EXCEPT !.initialized = TRUE],
          parses |-> 0, installs |-> 0]

NoRegistry == [kind |-> "none", name |-> "", initialized |-> FALSE, config |-> NoConfig]

\* PrometheusMetricsRegistry::new: Ok(registry) or the error of initialize
PrometheusMetricsRegistry_new(cfg, install_ok) ==
    LET registry == [kind |-> "prometheus", name |-> "prometheus_registry",
                     initialized |-> FALSE, config |-> cfg]
        r == PrometheusMetricsRegistry_initialize(registry, install_ok)
    IN IF r.status = "ok" THEN r ELSE [r EXCEPT !.registry = NoRegistry]

\* NoopMetricsRegistry::new
NoopMetricsRegistry_new ==
    [kind |-> "noop", name |-> "noop_registry", initialized |-> FALSE, config |-> NoConfig]

\* create_registry(config)
create_registry_ignores_enabled(cfg, install_ok) ==
    PrometheusMetricsRegistry_new(cfg, install_ok)

create_registry(cfg, install_ok) ==
    IF ~cfg.enabled
    THEN [status |-> "ok", msg |-> "", registry |-> NoopMetricsRegistry_new,
          parses |-> 0, installs |-> 0]
    ELSE PrometheusMetricsRegistry_new(cfg, install_ok)

\* a construction call returns r
Constructed(via, cfg, r) ==
    /\ nnew < MaxConstructions
    /\ nnew' = nnew + 1
    /\ exporter' = [parses |-> exporter.parses + r.parses,
                    installs |-> exporter.installs + r.installs]
    /\ registries' = IF r.status = "ok" THEN Append(registries, r.registry) ELSE registries
    /\ lastNew' = [via |-> via, config |-> cfg, status |-> r.status, msg |-> r.msg,
                   registry |-> IF r.status = "ok" THEN Len(registries) + 1 ELSE 0]
    /\ UNCHANGED <<capVars, innerKind, config, handles, sink, regVars, nmut, timers, now,
                   threadVars, shutdowns>>

CreateRegistry ==
    \E cfg \in Configs, install_ok \in BOOLEAN :
        Constructed("create_registry", cfg, create_registry(cfg, install_ok))

PrometheusNew ==
    \E cfg \in Configs, install_ok \in BOOLEAN :
        Constructed("new", cfg, PrometheusMetricsRegistry_new(cfg, install_ok))

\* a process in which no registry has been constructed
InitBuild ==
    /\ ctx = NoContext
    /\ granted = {}
    /\ innerKind = "noop"
    /\ config = [default_labels |-> EmptyLabels, include_plugin_id |-> FALSE]
    /\ handles = <<>>
    /\ sink = EmptySink
    /\ NoRegistryCalls
    /\ timers = <<>>
    /\ now = 0
    /\ ThreadsIdle
    /\ NothingConstructed

NextBuild ==
    \/ CreateRegistry
    \/ PrometheusNew

SpecBuild == InitBuild /\ [][NextBuild]_vars

\* ------------------------------------------------------------------ shutdown
\* self.inner.shutdown(): PrometheusMetricsRegistry::shutdown and
\* NoopMetricsRegistry::shutdown are Ok(()); another implementor may return Err
inner_shutdown ==
    CASE innerKind = "prometheus" -> "ok"
      [] innerKind = "noop" -> "ok"
      [] OTHER -> "MetricsError"

\* CapabilityMetricsRegistry::shutdown
CapabilityMetricsRegistry_shutdown_checks_capability ==
    IF caller_identity \in granted
    THEN [checks |-> 1, forwarded |-> TRUE, status |-> inner_shutdown]
    ELSE [checks |-> 1, forwarded |-> FALSE, status |-> "CapabilityError"]

CapabilityMetricsRegistry_shutdown ==
    [checks |-> 0, forwarded |-> TRUE, status |-> inner_shutdown]

\* registry.shutdown() on the capability registry
CapabilityShutdown ==
    /\ shutdowns < MaxShutdowns
    /\ shutdowns' = shutdowns + 1
    /\ LET r == CapabilityMetricsRegistry_shutdown
       IN lastCall' = [NoCall EXCEPT !.type = "shutdown", !.checks = r.checks,
                                     !.status = r.status,
                                     !.forwarded = IF r.forwarded
                                                   THEN [NoArgs EXCEPT !.type = "shutdown"]
                                                   ELSE NoArgs]
    /\ lastMut' = NoMut
    /\ UNCHANGED <<capVars, innerKind, config, handles, sink, innerCalls, nmut, timers,
                   now, threadVars, ctorVars>>

NextShutdown ==
    \/ CapabilityCounter
    \/ CounterIncrement
    \/ Environment
    \/ CapabilityShutdown

\* a capability registry around an inner registry, shut down at any time
SpecShutdown == Init /\ [][NextShutdown]_vars

\* ------------------ the Prometheus registry: repeated calls with one name
SameNameLabels == {EmptyLabels, [k \in {"env"} |-> "mine"]}

\* registry.counter("m1", ..) / registry.gauge("m1", ..) called again
SameNameCounter ==
    \E l \in SameNameLabels :
        Len(handles) < MaxSameName /\ PrometheusCreate("counter", "m1", "d1", l)
SameNameGauge ==
    \E l \in SameNameLabels :
        Len(handles) < MaxSameName /\ PrometheusCreate("gauge", "m1", "d1", l)

\* a PrometheusMetricsRegistry called by plugin p1
InitSameName ==
    /\ ctx = "p1"
    /\ granted = {}
    /\ innerKind = "prometheus"
    /\ config = [default_labels |-> [k \in {"zone"} |-> "dflt"], include_plugin_id |-> TRUE]
    /\ handles = <<>>
    /\ sink = EmptySink
    /\ NoRegistryCalls
    /\ timers = <<>>
    /\ now = 0
    /\ ThreadsIdle
    /\ NothingConstructed

NextSameName ==
    \/ SameNameCounter
    \/ SameNameGauge
    \/ DirectCounterIncrement
    \/ DirectGaugeSet
    \/ DirectGaugeIncrement
    \/ DirectGaugeDecrement

SpecSameName == InitSameName /\ [][NextSameName]_vars

\* ------------------------------------ using a registry that was constructed
\* registry.counter(name, description, labels) on a registry returned by
\* create_registry or PrometheusMetricsRegistry::new (Box<dyn MetricsRegistry>);
\* the label settings of every MetricsConfig in Configs are those of config
BuiltCounter ==
    \E k \in 1..Len(registries) :
        /\ InnerTotal < MaxInnerCalls
        /\ LET r == IF registries[k].kind = "prometheus"
                    THEN PrometheusMetricsRegistry_create("counter", "m1", "d1", EmptyLabels)
                    ELSE NoopMetricsRegistry_create("counter", "m1", "d1", EmptyLabels)
           IN /\ handles' = Append(handles, r.handle)
              /\ sink' = r.sink
              /\ lastCall' = [NoCall EXCEPT !.type = "counter", !.name = "m1",
                                            !.description = "d1", !.status = r.status,
                                            !.handle = Len(handles) + 1]
        /\ innerCalls' = [innerCalls EXCEPT !["counter"] = @ + 1]
        /\ lastMut' = NoMut
        /\ UNCHANGED <<capVars, innerKind, config, nmut, timers, now, threadVars, lifeVars>>

\* counter.increment(value) on that counter; cSum adds up the amounts
BuiltCounterIncrement ==
    \E i \in 1..Len(handles), value \in Amounts :
        /\ nmut < MaxDirectCalls
        /\ LET r == Counter_increment(handles[i], sink, value)
           IN /\ handles' = [handles EXCEPT ![i] = r.handle]
              /\ sink' = r.sink
              /\ lastMut' = [handle |-> i, op |-> "increment", status |-> r.status,
                              caller |-> caller_identity,
                              authorized |-> caller_identity \in granted]
        /\ nmut' = nmut + 1
        /\ cSum' = cSum + value
        /\ lastCall' = NoCall
        /\ UNCHANGED <<capVars, innerKind, config, innerCalls, timers, now,
                       pc, op, tmp, reads, gHist, gDeltaSum, gSetSeen, gContended, calls,
                       lifeVars>>

NextBuildUse ==
    \/ CreateRegistry
    \/ PrometheusNew
    \/ BuiltCounter
    \/ BuiltCounterIncrement

SpecBuildUse == InitBuild /\ [][NextBuildUse]_vars

\* --------------- the capability registry called again as capabilities change
\* registry.counter(..) on the capability registry, several times over
RepeatedCounter ==
    \E fails \in BOOLEAN :
        CapabilityCreateUpTo(MaxRepeated, "counter", "m1", "d1", EmptyLabels, fails)

NextRepeated ==
    \/ RepeatedCounter
    \/ Environment

SpecRepeated == Init /\ [][NextRepeated]_vars

\* ================================================================ claims
CreationStep == lastCall' # NoCall
MutationStep == nmut' = nmut + 1

\* C1: a creation call on the capability registry for which the checker
\* answers false fails with CapabilityError, forwards nothing to the inner
\* registry, and leaves the inner registry's call counts, the handles and the
\* sink as they were, whatever calls came before.
C1_DeniedCallFailsClosed ==
    [][(CreationStep /\ lastCall'.answer = "false") =>
          /\ lastCall'.status = "CapabilityError"
          /\ lastCall'.forwarded = NoArgs
          /\ lastCall'.handle = 0
          /\ UNCHANGED <<innerCalls, handles, sink, timers>>]_vars

C1_Witness ==
    /\ lastCall.answer = "false"
    /\ lastCall.status = "CapabilityError"
    /\ InnerTotal = 1
    /\ Len(handles) = 1

\* C2: a creation call during which the checker returns an error returns that
\* error (neither CapabilityError nor success) and does not invoke the inner
\* registry.
C2_CheckerErrorPropagates ==
    [][(CreationStep /\ lastCall'.answer = "err") =>
          /\ lastCall'.status = "CheckerError"
          /\ lastCall'.forwarded = NoArgs
          /\ UNCHANGED <<innerCalls, handles, sink>>]_vars

C2_Witness ==
    /\ lastCall.answer = "err"
    /\ lastCall.status = "CheckerError"
    /\ lastCall.identity \in granted
    /\ innerCalls = [t \in Types |-> 0]

\* C3: a creation call for which the checker answers true hands the caller's
\* name, description and labels to the inner registry unchanged, invokes the
\* inner method of the same type once, and has the result, the handle and the
\* effect on the sink of the same call made on the inner registry directly.
C3_AllowedCallDelegatesUnchanged ==
    [][(CreationStep /\ lastCall'.answer = "true") =>
          LET c == lastCall'
              direct == inner_create(c.type, c.name, c.description, c.labels)
          IN /\ c.forwarded = [type |-> c.type, name |-> c.name,
                               description |-> c.description, labels |-> c.labels]
             /\ c.status = direct.status
             /\ innerCalls' = [innerCalls EXCEPT ![c.type] = @ + 1]
             /\ sink' = direct.sink
             /\ IF direct.status = "ok"
                THEN /\ handles' = Append(handles, direct.handle)
                     /\ c.handle = Len(handles')
                ELSE /\ handles' = handles
                     /\ c.handle = 0]_vars

C3_Witness ==
    /\ lastCall.answer = "true"
    /\ lastCall.status = "ok"
    /\ lastCall.labels # EmptyLabels
    /\ innerKind = "prometheus"
    /\ handles[lastCall.handle].labels =
          [k \in {"env", "plugin_id"} |-> IF k = "env" THEN "dflt" ELSE "mine"]
    /\ handles[lastCall.handle].description = lastCall.description

\* C4: a mutation of a handle (counter increment, gauge set/increment/
\* decrement, histogram record, start_timer) consults no capability and
\* succeeds, also when the caller holds no Metrics capability at that time.
C4_MutationNeedsNoCapability ==
    [][MutationStep =>
          /\ lastMut'.status = "ok"
          /\ lastCall' = NoCall
          /\ UNCHANGED <<innerCalls, granted, ctx>>]_vars

C4_Witness ==
    /\ lastMut.status = "ok"
    /\ lastMut.op = "increment"
    /\ ~lastMut.authorized
    /\ lastMut.caller = "p1"
    /\ innerCalls["counter"] = 1
    /\ handles[lastMut.handle].type = "counter"
    /\ Counter_value(handles[lastMut.handle]) = 1

\* C5: once every increment call on the shared counter has returned, value()
\* is the sum of the amounts on the Prometheus counter, and 0 on the no-op one.
C5_CounterValueIsSum ==
    AllIdle =>
        Counter_value(handles[1]) =
            IF handles[1].backend = "prometheus" THEN cSum ELSE 0

\* C6: of two successive value() reads of the shared counter, the second is
\* never smaller than the first.
C6_CounterNeverDecreases == reads[2] >= reads[1]

\* what C7 expects of one gauge call, and of a sequence of them
ApplyGaugeOp(v, o) ==
    CASE o.name = "set" -> o.value
      [] o.name = "increment" -> v + o.value
      [] OTHER -> v - o.value

RECURSIVE ApplyGaugeOps(_, _)
ApplyGaugeOps(v, h) ==
    IF h = <<>> THEN v ELSE ApplyGaugeOps(ApplyGaugeOp(v, Head(h)), Tail(h))

\* C7: whenever value() can be read, the gauge's value is the result of
\* applying the calls so far, in the order they took effect, to 0: set
\* replaces, increment adds, decrement subtracts; the no-op gauge reads 0.
C7_GaugeAppliesCallsInOrder ==
    handles[1].lock = "free" =>
        Gauge_value(handles[1]) =
            IF handles[1].backend = "prometheus" THEN ApplyGaugeOps(0, gHist) ELSE 0

C7_Witness ==
    /\ AllIdle
    /\ handles[1].backend = "prometheus"
    /\ Len(gHist) = 3
    /\ \A n \in GaugeOps : \E k \in 1..Len(gHist) : gHist[k].name = n
    /\ gHist[1].name = "increment"
    /\ gHist[2].name = "set"
    /\ Gauge_value(handles[1]) = gHist[2].value - gHist[3].value

\* C8: once the threads' gauge increments and decrements have all returned
\* (no set among them), the value is the initial 0 plus the sum of all deltas.
C8_NoLostGaugeUpdate ==
    (AllIdle /\ ~gSetSeen /\ handles[1].backend = "prometheus") =>
        Gauge_value(handles[1]) = 0 + gDeltaSum

C8_Witness ==
    /\ AllIdle
    /\ ~gSetSeen
    /\ gContended
    /\ handles[1].backend = "prometheus"
    /\ calls >= 3
    /\ gDeltaSum = 3
    /\ Gauge_value(handles[1]) = 3

\* C9: a timer on which stop() was called has had histogram.record invoked
\* exactly once, whether the record succeeded or failed: the drop of the
\* consumed timer records nothing more.
C9_StopRecordsOnce ==
    \A k \in 1..Len(timers) :
        timers[k].stopped =>
            /\ Len(timers[k].records) = 1
            /\ timers[k].dropped
            /\ ~timers[k].histogram.some

C9_Witness ==
    \E k \in 1..Len(timers) :
        /\ timers[k].stopped
        /\ timers[k].dropped
        /\ timers[k].target = "failing"
        /\ timers[k].result.status = "MetricsError"
        /\ Len(timers[k].records) = 1

\* C10: a timer dropped without stop() has had histogram.record invoked
\* exactly once, with the time elapsed between its creation and the drop, and
\* the drop yields no result even when the record failed.
C10_DropRecordsOnce ==
    \A k \in 1..Len(timers) :
        (timers[k].dropped /\ ~timers[k].stopped) =>
            /\ timers[k].records = << as_secs_f64(timers[k].endedAt - timers[k].start) >>
            /\ timers[k].result.status = "none"

C10_Witness ==
    \E k \in 1..Len(timers) :
        /\ timers[k].dropped
        /\ ~timers[k].stopped
        /\ timers[k].target = "failing"
        /\ timers[k].start = 1
        /\ timers[k].endedAt = 3
        /\ timers[k].records = << [secs |-> 1, frac |-> 0] >>

\* C11: a timer whose stop() succeeded returned the interval between its
\* creation and the stop, and the one value it passed to histogram.record is
\* that same interval in seconds: one reading of the clock serves both.
C11_StopReturnsRecordedElapsed ==
    \A k \in 1..Len(timers) :
        (timers[k].stopped /\ timers[k].result.status = "ok") =>
            /\ timers[k].result.elapsed = Some(timers[k].endedAt - timers[k].start)
            /\ timers[k].records = << as_secs_f64(timers[k].result.elapsed.v) >>

C11_Witness ==
    \E k \in 1..Len(timers) :
        /\ timers[k].stopped
        /\ timers[k].target = "prometheus"
        /\ timers[k].result = [status |-> "ok", elapsed |-> Some(3)]
        /\ timers[k].start = 0
        /\ timers[k].records = << [secs |-> 1, frac |-> 1] >>
        /\ sink.histogram["m1"] = << [secs |-> 1, frac |-> 1] >>

\* C12 as stated: stop() returns the elapsed duration whether or not
\* histogram.record succeeded, and returns the record error when it failed.
C12_StopReturnsElapsedRegardless ==
    \A k \in 1..Len(timers) :
        timers[k].stopped =>
            /\ timers[k].result.elapsed.some
            /\ timers[k].target = "failing" => timers[k].result.status = "MetricsError"

\* C12 amended: stop() returns Ok(elapsed) when histogram.record succeeded;
\* when record failed it returns the record error and no duration.
C12_StopReturnsElapsedOrError ==
    \A k \in 1..Len(timers) :
        timers[k].stopped =>
            IF timers[k].target = "failing"
            THEN timers[k].result = [status |-> "MetricsError", elapsed |-> NoneOpt]
            ELSE /\ timers[k].result.status = "ok"
                 /\ timers[k].result.elapsed.some

C12_Witness ==
    \E j, k \in 1..Len(timers) :
        /\ timers[j].stopped
        /\ timers[j].target = "failing"
        /\ timers[j].result = [status |-> "MetricsError", elapsed |-> NoneOpt]
        /\ Len(timers[j].records) = 1
        /\ timers[k].stopped
        /\ timers[k].target = "noop"
        /\ timers[k].result.elapsed.some

\* C13: the labels of a metric created on the Prometheus registry from caller
\* labels L, defaults D and context plugin id p keep every key of L with L's
\* value, hold every key of D absent from L with D's value, hold "plugin_id"
\* with value p exactly when include_plugin_id is set, p is available and the
\* key is in neither L nor D, and hold no other key; the registry's
\* configuration is unchanged by the call.
C13_LabelMergePrecedence ==
    [][CreationStep =>
          LET L == lastCall'.labels
              D == config.default_labels
              p == plugin_id_of(ctx)
              M == handles'[lastCall'.handle].labels
              injected == /\ "plugin_id" \in DOMAIN M
                          /\ "plugin_id" \notin (DOMAIN L) \cup (DOMAIN D)
          IN /\ \A k \in DOMAIN L : k \in DOMAIN M /\ M[k] = L[k]
             /\ \A k \in (DOMAIN D) \ (DOMAIN L) : k \in DOMAIN M /\ M[k] = D[k]
             /\ injected <=> /\ config.include_plugin_id
                             /\ p.some
                             /\ "plugin_id" \notin (DOMAIN L) \cup (DOMAIN D)
             /\ injected => M["plugin_id"] = p.v
             /\ DOMAIN M \subseteq (DOMAIN L) \cup (DOMAIN D) \cup {"plugin_id"}
             /\ config' = config]_vars

C13_Witness ==
    /\ lastCall.status = "ok"
    /\ DOMAIN lastCall.labels = {"env"}
    /\ DOMAIN config.default_labels = {"zone"}
    /\ config.include_plugin_id
    /\ ctx = "p1"
    /\ handles[lastCall.handle].labels =
          [k \in {"env", "zone", "plugin_id"} |->
              CASE k = "env" -> "mine" [] k = "zone" -> "dflt" [] OTHER -> "p1"]

\* C14: on the no-op registry every creation call succeeds and returns a
\* handle, every mutation (counter increment, gauge set/increment/decrement,
\* histogram record) and every timer stop returns success, and value() of
\* every counter and every gauge is 0 after any sequence of them.
C14_NoopAcceptsAndStaysZero ==
    /\ lastCall # NoCall => lastCall.status = "ok" /\ lastCall.handle = Len(handles)
    /\ lastMut # NoMut => lastMut.status = "ok"
    /\ \A k \in 1..Len(timers) : timers[k].stopped => timers[k].result.status = "ok"
    /\ \A i \in 1..Len(handles) :
          /\ handles[i].backend = "noop"
          /\ handles[i].type = "counter" => Counter_value(handles[i]) = 0
          /\ handles[i].type = "gauge" => Gauge_value(handles[i]) = 0

C14_Witness ==
    /\ nmut = MaxDirectCalls
    /\ lastMut.op = "decrement"
    /\ lastMut.status = "ok"
    /\ \A ty \in Types : \E i \in 1..Len(handles) : handles[i].type = ty
    /\ \E k \in 1..Len(timers) : timers[k].stopped /\ timers[k].result.status = "ok"
    /\ \A i \in 1..Len(handles) :
          handles[i].type = "gauge" => Gauge_value(handles[i]) = 0

ConstructionStep == nnew' = nnew + 1
RealBackendStep ==
    /\ ConstructionStep
    /\ lastNew'.via = "new" \/ lastNew'.config.enabled

\* C15: create_registry decides on config.enabled alone: when it is false the
\* call succeeds with the no-op registry and parses no endpoint and installs
\* nothing, whatever the other fields are; when it is true the call's outcome
\* is that of PrometheusMetricsRegistry::new on the same configuration, its
\* error included.
C15_FactoryDecidesOnEnabled ==
    [][(ConstructionStep /\ lastNew'.via = "create_registry") =>
          LET cfg == lastNew'.config
          IN IF ~cfg.enabled
             THEN /\ lastNew'.status = "ok"
                  /\ registries' = Append(registries, NoopMetricsRegistry_new)
                  /\ lastNew'.registry = Len(registries')
                  /\ exporter' = exporter
             ELSE \E install_ok \in BOOLEAN :
                     LET r == PrometheusMetricsRegistry_new(cfg, install_ok)
                     IN /\ lastNew'.status = r.status
                        /\ lastNew'.msg = r.msg
                        /\ exporter'.installs = exporter.installs + r.installs
                        /\ IF r.status = "ok"
                           THEN /\ registries' = Append(registries, r.registry)
                                /\ r.registry.kind = "prometheus"
                           ELSE /\ registries' = registries
                                /\ lastNew'.registry = 0]_vars

C15_Witness ==
    /\ nnew = 2
    /\ lastNew.via = "create_registry"
    /\ ~lastNew.config.enabled
    /\ lastNew.config.prometheus_enabled
    /\ lastNew.config.prometheus_endpoint = "not-an-address"
    /\ lastNew.status = "ok"
    /\ Len(registries) = 1
    /\ registries[1].kind = "noop"
    /\ exporter = [parses |-> 1, installs |-> 0]

C17_InstallAtMostOnce == exporter.installs <= 1

ShutdownStep == shutdowns' = shutdowns + 1

\* C18: shutdown() on the capability registry consults no capability, invokes
\* the inner registry's shutdown and returns its result, whoever the caller
\* is and whatever was granted; on the Prometheus and the no-op registry every
\* call succeeds, however many were made before; handles, their values and
\* the sink are left as they were.
C18_ShutdownUnchecked ==
    [][ShutdownStep =>
          /\ lastCall'.checks = 0
          /\ lastCall'.forwarded = [NoArgs EXCEPT !.type = "shutdown"]
          /\ lastCall'.status = inner_shutdown
          /\ innerKind \in {"prometheus", "noop"} => lastCall'.status = "ok"
          /\ UNCHANGED <<handles, sink, innerCalls, timers>>]_vars

C18_Witness ==
    /\ shutdowns = 2
    /\ lastCall.type = "shutdown"
    /\ lastCall.status = "ok"
    /\ innerKind = "prometheus"
    /\ caller_identity \notin granted
    /\ Len(handles) = 1
    /\ Counter_value(handles[1]) = 1

\* C19: every counter, gauge or histogram call on the capability registry
\* asks the checker once, about the Metrics capability and about the identity
\* of the execution context at the time of the call (its plugin id, or
\* "unknown" when there is no context or the context has no plugin id), and
\* the inner registry is reached only after the checker has answered true.
C19_CheckerConsultedOncePerCreation ==
    [][CreationStep =>
          /\ lastCall'.checks = 1
          /\ lastCall'.capability = "Metrics"
          /\ lastCall'.identity = IF ctx \in {NoContext, NoPluginId} THEN "unknown" ELSE ctx
          /\ lastCall'.answer \in
                {"err", IF lastCall'.identity \in granted THEN "true" ELSE "false"}
          /\ (lastCall'.forwarded # NoArgs \/ innerCalls' # innerCalls) =>
                lastCall'.answer = "true"]_vars

C19_Witness ==
    /\ ctx = NoPluginId
    /\ lastCall.type = "histogram"
    /\ lastCall.checks = 1
    /\ lastCall.identity = "unknown"
    /\ lastCall.answer = "true"
    /\ lastCall.status = "ok"
    /\ "p1" \notin granted

\* the sum, modulo 2^U64Bits, of the local values of the counters in h
RECURSIVE CounterTotal(_)
CounterTotal(h) ==
    IF h = <<>> THEN 0
    ELSE (CounterTotal(Tail(h)) + IF Head(h).type = "counter" THEN Head(h).value ELSE 0)
            % Modulus

\* C20, creation: a handle created on the Prometheus registry under a name
\* already in use starts at value 0 and leaves the handles created before as
\* they were.
C20_NewHandleStartsAtZero ==
    CreationStep =>
        /\ handles'[Len(handles')].value = 0
        /\ \A j \in 1..Len(handles) : handles'[j] = handles[j]

\* C20, mutation: a call through one handle leaves every other handle as it
\* was, and is forwarded to the sink's series of the name with the empty
\* label list: the counter series moves by what the handle's value moved, the
\* gauge series is set to the handle's new value.
C20_MutationStaysLocal ==
    MutationStep =>
        LET i == lastMut'.handle
            n == handles[i].name
        IN /\ \A j \in 1..Len(handles) : j # i => handles'[j] = handles[j]
           /\ handles[i].type = "counter" =>
                 (sink'.counter[n] - sink.counter[n]) % Modulus =
                    (handles'[i].value - handles[i].value) % Modulus
           /\ handles[i].type = "gauge" => sink'.gauge[n] = handles'[i].value

OnlyUnexportedRegistries ==
    \A k \in 1..Len(registries) :
        /\ registries[k].kind = "prometheus"
        /\ registries[k].config.enabled
        /\ ~registries[k].config.prometheus_enabled

\* C21, construction: with enabled set and prometheus_enabled clear the
\* construction succeeds whatever the endpoint is, parses no endpoint, installs
\* nothing, and returns a Prometheus registry marked initialized.
C21_ConstructionSkipsExport ==
    [][(/\ ConstructionStep
        /\ lastNew'.config.enabled
        /\ ~lastNew'.config.prometheus_enabled) =>
          /\ lastNew'.status = "ok"
          /\ exporter' = exporter
          /\ Len(registries') = Len(registries) + 1
          /\ registries'[lastNew'.registry].kind = "prometheus"
          /\ registries'[lastNew'.registry].initialized]_vars

\* C21, handles: a counter created by such a registry reads the sum of the
\* amounts of its increments.
C21_HandlesTrackLocally ==
    [](OnlyUnexportedRegistries =>
          \A i \in 1..Len(handles) : Counter_value(handles[i]) = cSum)

\* C21: with enabled set and prometheus_enabled clear, constructing the real
\* backend succeeds for every endpoint string without parsing or installing
\* and marks the registry initialized, and a counter the registry creates has
\* value() equal to the sum of its increments.
C21_UnexportedBackendWorks == C21_ConstructionSkipsExport /\ C21_HandlesTrackLocally

\* C22: once every set, increment and decrement call of the threads on the
\* shared Prometheus gauge has returned, the value last forwarded to the sink
\* is the gauge's local value().
C22_SinkAgreesWithLocalValue ==
    (AllIdle /\ handles[1].backend = "prometheus") =>
        sink.gauge[handles[1].name] = Gauge_value(handles[1])

\* C23: the outcome of a creation call on the capability registry is fixed by
\* the checker's answer, at that call, for the identity of the execution
\* context at that call, whatever calls, grants and revocations came before:
\* an identity that does not hold the capability now is denied and nothing
\* reaches the inner registry (also right after it, or another identity, was
\* allowed), and an identity that holds it now is delegated (also right after
\* it was denied).
C23_DecisionHasNoMemory ==
    [][CreationStep =>
          LET p == plugin_id_of(ctx)
              id == IF p.some THEN p.v ELSE Unknown
          IN IF lastCall'.answer = "err"
             THEN lastCall'.status = "CheckerError"
             ELSE /\ lastCall'.identity = id
                  /\ id \notin granted =>
                        /\ lastCall'.status = "CapabilityError"
                        /\ UNCHANGED <<handles, innerCalls, sink>>
                  /\ id \in granted =>
                        /\ lastCall'.forwarded # NoArgs
                        /\ InnerTotal' = InnerTotal + 1
                        /\ lastCall'.status = inner_create("counter", "m1", "d1",
                                                           EmptyLabels).status]_vars

C23_Witness ==
    /\ innerKind = "prometheus"
    /\ Len(handles) = 1
    /\ "plugin_id" \in DOMAIN handles[1].labels
    /\ handles[1].labels["plugin_id"] = "p1"
    /\ ctx = "p1"
    /\ "p1" \notin granted
    /\ Unknown \in granted
    /\ lastCall.identity = "p1"
    /\ lastCall.answer = "false"
    /\ lastCall.status = "CapabilityError"

====
